---- MODULE Spec2Model ----
(***************************************************************************)
(* enum-from-functions: a procedural macro attribute that, placed on an    *)
(* `impl` block, generates an enum with one variant per function and a     *)
(* dispatch function `map`.                                                *)
(*                                                                         *)
(* Two revisions of the transformation are in the sources:                 *)
(*   - extract.rs / generate.rs: Functions::try_from (signature            *)
(*     extraction, qualifier aggregation, return-type unification) and     *)
(*     Variants::from (variant synthesis);                                 *)
(*   - lib.rs: enum_from_functions (the strict, receiver-forbidding        *)
(*     revision, which emits the enum and `map` itself).                   *)
(* The variable pc says which of the two is applied to the impl block and  *)
(* where it stands.                                                        *)
(***************************************************************************)
EXTENDS Integers, Sequences, FiniteSets, TLC

\* Longest impl-block member list explored.
MaxItems == 3

VARIABLES
    items,          \* input.items / parsed_impl.items: the impl block's members
    args,           \* the macro attribute's argument tokens
    pc,             \* control position
    i,              \* position of the `for item in ...` loop (next item to visit)
    r,              \* extract.rs: `let mut r = Functions::new()`
    return_type,    \* extract.rs: `let mut return_type: Option<&ReturnType>` (0 = None, else the item borrowed from)
    diagnostics,    \* proc_macro_error sink: emit_error!/abort! in order
    Variants,       \* generate.rs: the Vec<Variant> inside Variants
    variants,       \* lib.rs: `let mut variants`
    function_names, \* lib.rs: `let mut function_names`
    parsed_pub,     \* lib.rs: `let parsed_pub` (TRUE for Some(pub))
    first_sig,      \* lib.rs: `let mut first_sig: Option<&Signature>` (0 = None, else the item borrowed from)
    discarded,      \* lib.rs: syn::Error values built and dropped without reaching the output
    out             \* lib.rs: the TokenStream the macro returns

vars == <<items, args, pc, i, r, return_type, diagnostics, Variants, variants,
          function_names, first_sig, parsed_pub, discarded, out>>

----------------------------------------------------------------------------
(* Syntax trees (syn)                                                      *)

\* FnArg::Receiver
Receiver == [kind |-> "Receiver", pat |-> "Self", name |-> "self", ty |-> "Self"]

\* FnArg::Typed with a Pat::Ident, Pat::Wild or Pat::Tuple pattern
Typed(pat, name, ty) == [kind |-> "Typed", pat |-> pat, name |-> name, ty |-> ty]

ArgX == Typed("Ident", "x", "T")
ArgY == Typed("Ident", "y", "U")
ArgWild == Typed("Wild", "_", "U")
ArgTuple == Typed("Tuple", "(a, b)", "T")

\* syn::Signature
Sig(ident, constness, asyncness, unsafety, inputs, output) ==
    [ident |-> ident, constness |-> constness, asyncness |-> asyncness,
     unsafety |-> unsafety, inputs |-> inputs, output |-> output]

\* ImplItem::Fn
Fn(sig) == [kind |-> "Fn", sig |-> sig]

\* Any other ImplItem (an associated constant)
ConstItem == [kind |-> "Const", sig |-> Sig(<<"K">>, FALSE, FALSE, FALSE, <<>>, "Default")]

IsFn(item) == item.kind = "Fn"

----------------------------------------------------------------------------
(* convert_case: to_case(Case::Pascal)                                     *)

IsLower(c) == c \in {"f", "g"}
IsUpper(c) == c \in {"F", "G", "K"}
ToUpper(c) == CASE c = "f" -> "F" [] c = "g" -> "G" [] OTHER -> c
ToLower(c) == CASE c = "F" -> "f" [] c = "G" -> "g" [] c = "K" -> "k" [] OTHER -> c

\* A word starts at k: the start, after a delimiter, at a lower-to-upper
\* boundary, or at the last capital of an acronym followed by lower case.
WordStart(s, k) ==
    \/ k = 1
    \/ s[k - 1] = "_"
    \/ IsLower(s[k - 1]) /\ IsUpper(s[k])
    \/ IsUpper(s[k - 1]) /\ IsUpper(s[k]) /\ k < Len(s) /\ IsLower(s[k + 1])

RECURSIVE PascalFrom(_, _)
PascalFrom(s, k) ==
    IF k > Len(s) THEN <<>>
    ELSE IF s[k] = "_" THEN PascalFrom(s, k + 1)
    ELSE <<(IF WordStart(s, k) THEN ToUpper(s[k]) ELSE ToLower(s[k]))>>
         \o PascalFrom(s, k + 1)

\* a conversion that only capitalizes the first letter
PascalMutant(s) == IF s = <<>> THEN s ELSE <<ToUpper(s[1])>> \o Tail(s)

Pascal(s) == PascalFrom(s, 1)

----------------------------------------------------------------------------
(* generate.rs: WithoutTypes for FnArg                                     *)

\* `_ => unreachable!()`: a typed argument bound by neither a name nor `_`
WithoutTypesUnreachable(from) ==
    \E k \in 1..Len(from) :
        from[k].kind = "Typed" /\ from[k].pat \notin {"Ident", "Wild"}

RECURSIVE WithoutTypesFrom(_, _)
WithoutTypesFrom(from, k) ==
    IF k > Len(from) THEN <<>>
    ELSE (IF from[k].kind = "Typed" /\ from[k].pat = "Ident"
          THEN <<from[k].name>> ELSE <<>>) \o WithoutTypesFrom(from, k + 1)

\* the names the call expression forwards: filter_map over the arguments
WithoutTypes(from) == WithoutTypesFrom(from, 1)

----------------------------------------------------------------------------
(* extract.rs: Functions                                                   *)

\* Functions::new(). An Option<Token![..]> is 0 for None, else the member
\* whose token it was cloned from.
FunctionsNew ==
    [signatures |-> <<>>, return_type |-> "Default", calls |-> <<>>,
     asyncness |-> 0, constness |-> 0, unsafety |-> 0]

\* `let async_const = match (...)`: 0 for None, else the arm that matched
AsyncConst(sig, acc) ==
    IF sig.asyncness /\ ~sig.constness /\ acc.asyncness = 0 /\ acc.constness # 0 THEN 1
    ELSE IF ~sig.asyncness /\ sig.constness /\ acc.asyncness # 0 /\ acc.constness = 0 THEN 2
    ELSE 0

\* a mismatch reported at the first-seen type only
ReturnTypeDiagnosticsMutant(its, first, k) ==
    IF first # 0 /\ its[first].sig.output # its[k].sig.output
    THEN << [at |-> <<"output", first>>, msg |-> "return type does not match",
             shown |-> its[k].sig.output, fatal |-> FALSE] >>
    ELSE <<>>

\* the two diagnostics of a return-type mismatch, in emission order
ReturnTypeDiagnostics(its, first, k) ==
    IF first # 0 /\ its[first].sig.output # its[k].sig.output
    THEN << [at |-> <<"output", first>>, msg |-> "return type does not match",
             shown |-> its[k].sig.output, fatal |-> FALSE],
            [at |-> <<"output", k>>, msg |-> "return type does not match",
             shown |-> its[first].sig.output, fatal |-> FALSE] >>
    ELSE <<>>

\* emit_error!(asyncness, ..); abort!(constness, ..)
AsyncConstDiagnostics(acc, k, arm) ==
    << [at |-> <<"async", IF arm = 1 THEN k ELSE acc.asyncness>>,
        msg |-> "cannot mix async and const functions",
        shown |-> "", fatal |-> FALSE],
       [at |-> <<"const", IF arm = 1 THEN acc.constness ELSE k>>,
        msg |-> "cannot mix async and const functions",
        shown |-> "", fatal |-> TRUE] >>

\* the forwarding call pushed to r.calls
Call(sig) ==
    [func |-> sig.ident,
     recv |-> (Len(sig.inputs) > 0 /\ sig.inputs[1].kind = "Receiver"),
     args |-> WithoutTypes(sig.inputs),
     await |-> sig.asyncness]

\* a flag assigned from every function, set or not
SetFlagMutant(flag, present, k) == IF present THEN k ELSE 0

\* set_flag!(asyncness, constness, unsafety)
SetFlag(flag, present, k) == IF present THEN k ELSE flag

\* One iteration of `for item in &input.items` of Functions::try_from.
TryFromStep ==
    /\ pc = "try_from"
    /\ i <= Len(items)
    /\ LET item == items[i]
           sig == item.sig
           mismatch == ReturnTypeDiagnostics(items, return_type, i)
           arm == AsyncConst(sig, r)
       IN  IF ~IsFn(item)
           THEN /\ i' = i + 1
                /\ UNCHANGED <<pc, r, return_type, diagnostics>>
           ELSE /\ return_type' = IF return_type = 0 THEN i ELSE return_type
                /\ IF arm # 0
                   THEN /\ diagnostics' = diagnostics \o mismatch
                                           \o AsyncConstDiagnostics(r, i, arm)
                        /\ pc' = "abort"
                        /\ UNCHANGED <<r, i>>
                   ELSE /\ diagnostics' = diagnostics \o mismatch
                        /\ IF WithoutTypesUnreachable(sig.inputs)
                           THEN /\ pc' = "panic"
                                /\ r' = [r EXCEPT !.signatures = Append(@, i)]
                                /\ UNCHANGED i
                           ELSE /\ r' = [r EXCEPT
                                          !.signatures = Append(@, i),
                                          !.calls = Append(@, Call(sig)),
                                          !.asyncness = SetFlag(@, sig.asyncness, i),
                                          !.constness = SetFlag(@, sig.constness, i),
                                          !.unsafety = SetFlag(@, sig.unsafety, i)]
                                /\ i' = i + 1
                                /\ UNCHANGED pc
    /\ UNCHANGED <<items, args, Variants, variants, function_names, first_sig,
                   parsed_pub, discarded, out>>

\* After the loop: `r.return_type = return_type.clone(); Ok(r)`.
TryFromReturn ==
    /\ pc = "try_from"
    /\ i > Len(items)
    /\ r' = [r EXCEPT !.return_type =
                IF return_type # 0 THEN items[return_type].sig.output ELSE @]
    /\ pc' = "Ok"
    /\ UNCHANGED <<items, args, i, return_type, diagnostics, Variants, variants,
                   function_names, first_sig, parsed_pub, discarded, out>>

----------------------------------------------------------------------------
(* generate.rs: Variants                                                   *)

\* the arguments handed to `parse_quote!({ #(#inputs),* })`: all of them
\* but a leading receiver
FieldInputs(signature) ==
    IF Len(signature.inputs) > 0 /\ signature.inputs[1].kind = "Receiver"
    THEN Tail(signature.inputs) ELSE signature.inputs

\* Whether `pat: ty` parses as a named field. `_: ty` does only with a
\* parser that knows unnamed fields (unnamedFields); a tuple pattern never.
ParsesAsField(arg, unnamedFields) ==
    /\ arg.kind = "Typed"
    /\ \/ arg.pat = "Ident"
       \/ arg.pat = "Wild" /\ unnamedFields

\* parse_quote! panics when the tokens are not a FieldsNamed
ConvertSinglePanics(signature, unnamedFields) ==
    \E k \in 1..Len(FieldInputs(signature)) :
        ~ParsesAsField(FieldInputs(signature)[k], unnamedFields)

RECURSIVE FieldsFrom(_, _)
FieldsFrom(inputs, k) ==
    IF k > Len(inputs) THEN <<>>
    ELSE <<[name |-> inputs[k].name, ty |-> inputs[k].ty]>> \o FieldsFrom(inputs, k + 1)

\* Variants::convert_single
ConvertSingle(signature) ==
    [ident |-> Pascal(signature.ident),
     fields |-> IF Len(signature.inputs) > 0
                THEN [some |-> TRUE, named |-> FieldsFrom(FieldInputs(signature), 1)]
                ELSE [some |-> FALSE, named |-> <<>>]]

RECURSIVE ConvertFrom(_, _, _)
ConvertFrom(its, signatures, k) ==
    IF k > Len(signatures) THEN <<>>
    ELSE <<ConvertSingle(its[signatures[k]].sig)>> \o ConvertFrom(its, signatures, k + 1)

\* impl From<&Functions> for Variants. The field parser is the build's.
VariantsFrom ==
    /\ pc = "Ok"
    /\ \E unnamedFields \in BOOLEAN :
          IF \E k \in 1..Len(r.signatures) :
                 ConvertSinglePanics(items[r.signatures[k]].sig, unnamedFields)
          THEN /\ pc' = "generate_panic"
               /\ UNCHANGED Variants
          ELSE /\ pc' = "Variants"
               /\ Variants' = ConvertFrom(items, r.signatures, 1)
    /\ UNCHANGED <<items, args, i, r, return_type, diagnostics, variants,
                   function_names, first_sig, parsed_pub, discarded, out>>

----------------------------------------------------------------------------
(* lib.rs: enum_from_functions                                             *)

\* anonimize!: the signature with its name replaced by `anon`
Anonimize(sig) == [sig EXCEPT !.ident = <<"a", "n", "o", "n">>]

\* `if !args.is_empty() { Some(parse_macro_input!(args as Token![pub])) }`;
\* a parse error returns the error's tokens at once.
LibParseArgs ==
    /\ pc = "lib_args"
    /\ IF args \in {"", "pub"}
       THEN /\ parsed_pub' = (args = "pub")
            /\ pc' = "lib_items"
            /\ UNCHANGED out
       ELSE /\ out' = [kind |-> "compile_error"]
            /\ pc' = "lib_done"
            /\ UNCHANGED parsed_pub
    /\ UNCHANGED <<items, args, i, r, return_type, diagnostics, Variants,
                   variants, function_names, first_sig, discarded>>

\* The errors an iteration builds with syn::Error::new(..) and turns into
\* tokens with into_compile_error(); the tokens are dropped at the `;`.
LibErrors(its, first, k) ==
    IF first # 0
    THEN IF Anonimize(its[first].sig) # Anonimize(its[k].sig)
         THEN <<[msg |-> "mismatched signatures", first |-> first, func |-> k]>>
         ELSE <<>>
    ELSE IF Len(its[k].sig.inputs) > 0 /\ its[k].sig.inputs[1].kind = "Receiver"
         THEN <<[msg |-> "the self argument is not allowed", first |-> k, func |-> k]>>
         ELSE <<>>

\* One iteration of `for item in parsed_impl.items.iter()`.
LibStep ==
    /\ pc = "lib_items"
    /\ i <= Len(items)
    /\ i' = i + 1
    /\ IF IsFn(items[i])
       THEN /\ discarded' = discarded \o LibErrors(items, first_sig, i)
            /\ first_sig' = IF first_sig = 0 THEN i ELSE first_sig
            /\ variants' = Append(variants, Pascal(items[i].sig.ident))
            /\ function_names' = Append(function_names, items[i].sig.ident)
       ELSE UNCHANGED <<discarded, first_sig, variants, function_names>>
    /\ UNCHANGED <<items, args, pc, r, return_type, diagnostics, Variants,
                   parsed_pub, out>>

\* `FnArg::Receiver(_) => unreachable!()` while collecting the call arguments
LibArgsUnreachable(some) ==
    \E k \in 1..Len(some.inputs) : some.inputs[k].kind = "Receiver"

RECURSIVE PatsFrom(_, _)
PatsFrom(inputs, k) ==
    IF k > Len(inputs) THEN <<>>
    ELSE <<inputs[k].name>> \o PatsFrom(inputs, k + 1)

\* `let args`: the patterns of the first function's arguments
LibArgs(some) == PatsFrom(some.inputs, 1)

RECURSIVE ArmsFrom(_, _, _, _)
ArmsFrom(vs, fs, as, k) ==
    IF k > Len(vs) THEN <<>>
    ELSE <<[variant |-> vs[k], func |-> fs[k], args |-> as]>>
         \o ArmsFrom(vs, fs, as, k + 1)

\* every arm calling the first function
MatchArmsMutant(vs, fs, as) == ArmsFrom(vs, [k \in 1..Len(fs) |-> fs[1]], as, 1)

\* `#(Self::#variants => Self::#function_names(#args)),*`
MatchArms(vs, fs, as) == ArmsFrom(vs, fs, as, 1)

\* the visibility written before the generated `map`
MapVisibility(pub) == "pub"

\* the item built from the first signature: `pub #sig { match self { .. } }`
MapItem(some, vs, fs, pub) ==
    [vis |-> MapVisibility(pub),
     sig |-> [some EXCEPT !.ident = <<"m", "a", "p">>, !.inputs = <<Receiver>> \o @],
     arms |-> MatchArms(vs, fs, LibArgs(some))]

\* After the loop: build `map` when there is a first function, then emit
\* the enum and the impl block. `quote!` interpolates the attributes, the
\* enum and the impl block; no error tokens are among them.
LibEmit ==
    /\ pc = "lib_items"
    /\ i > Len(items)
    /\ IF first_sig # 0 /\ LibArgsUnreachable(items[first_sig].sig)
       THEN /\ pc' = "lib_panic"
            /\ UNCHANGED out
       ELSE /\ pc' = "lib_done"
            /\ out' = [kind |-> "tokens",
                       enum |-> [vis |-> IF parsed_pub THEN "pub" ELSE "",
                                 variants |-> variants],
                       errors |-> <<>>,
                       impl_items |-> items,
                       map |-> IF first_sig # 0
                               THEN <<MapItem(items[first_sig].sig, variants,
                                              function_names, parsed_pub)>>
                               ELSE <<>>]
    /\ UNCHANGED <<items, args, i, r, return_type, diagnostics, Variants,
                   variants, function_names, first_sig, parsed_pub, discarded>>

----------------------------------------------------------------------------
(* Evaluating the generated code                                           *)

RECURSIVE FirstArm(_, _, _)
\* the first arm of the match, from k on, whose pattern is variant v (0: none)
FirstArm(arms, v, k) ==
    IF k > Len(arms) THEN 0
    ELSE IF arms[k].variant = v THEN k ELSE FirstArm(arms, v, k + 1)

\* the value bound to name n by parameters params called with argv
\* (0 when no parameter has that name)
RECURSIVE Bound(_, _, _, _)
Bound(params, argv, n, k) ==
    IF k > Len(params) THEN 0
    ELSE IF params[k].name = n THEN argv[k] ELSE Bound(params, argv, n, k + 1)

RECURSIVE EvalArgs(_, _, _, _)
EvalArgs(params, argv, names, k) ==
    IF k > Len(names) THEN <<>>
    ELSE <<Bound(params, argv, names[k], 1)>> \o EvalArgs(params, argv, names, k + 1)

\* `Enum::map(v, argv..)`: the call the matching arm makes
Dispatch(map, v, argv) ==
    LET k == FirstArm(map.arms, v, 1)
    IN  [func |-> map.arms[k].func,
         argv |-> EvalArgs(Tail(map.sig.inputs), argv, map.arms[k].args, 1)]

\* `Enum::f(argv..)` called directly
DirectCall(sig, argv) == [func |-> sig.ident, argv |-> argv]

\* distinct argument values, one per parameter
ArgValues(sig) == [k \in 1..Len(sig.inputs) |-> 10 + k]

----------------------------------------------------------------------------
(* Inputs                                                                  *)

NoOut == [kind |-> "none"]

\* the macro attribute's arguments: none, `pub`, or anything else
ArgTokens == {"", "pub", "crate"}

\* the function members of a list have pairwise distinct names
DistinctNames(its) ==
    \A j \in 1..Len(its) : \A k \in 1..Len(its) :
        (IsFn(its[j]) /\ IsFn(its[k]) /\ its[j].sig.ident = its[k].sig.ident) => j = k

MemberLists(members) ==
    {its \in UNION {[1..n -> members] : n \in 0..MaxItems} : DistinctNames(its)}

\* a name for the member at position k: f, ff, fff, ..
NameAt(k) == [j \in 1..k |-> "f"]

\* the list with its function members named by position
Named(its) ==
    [k \in 1..Len(its) |->
        IF IsFn(its[k]) THEN [its[k] EXCEPT !.sig.ident = NameAt(k)] ELSE its[k]]

\* Function members differing in qualifiers and return type, one with a
\* destructuring argument, and a non-function member.
QualifierMembers ==
    {Fn(Sig(<<>>, c, a, u, <<>>, o)) :
        c \in BOOLEAN, a \in BOOLEAN, u \in BOOLEAN, o \in {"Default", "T"}}
    \cup {Fn(Sig(<<>>, FALSE, FALSE, FALSE, <<ArgTuple>>, "T")), ConstItem}

QualifierLists ==
    {Named(its) : its \in UNION {[1..n -> QualifierMembers] : n \in 0..MaxItems}}

Names == {<<"f">>, <<"g">>, <<"f", "_", "g">>, <<"f", "G">>}

Shapes == {<<>>, <<ArgX>>, <<ArgX, ArgY>>, <<ArgX, ArgWild>>, <<Receiver, ArgX>>}

\* Function members differing in name and argument list, one asynchronous,
\* one with another return type, and a non-function member.
ShapeMembers ==
    {Fn(Sig(n, FALSE, FALSE, FALSE, in, "T")) : n \in Names, in \in Shapes}
    \cup {Fn(Sig(<<"g">>, FALSE, TRUE, FALSE, <<ArgX>>, "T")),
          Fn(Sig(<<"g">>, FALSE, FALSE, FALSE, <<ArgX>>, "Default")),
          ConstItem}

InitWith(lists) ==
    /\ items \in lists
    /\ \/ pc = "try_from" /\ args = ""
       \/ pc = "lib_args" /\ args \in ArgTokens
    /\ i = 1
    /\ r = FunctionsNew
    /\ return_type = 0
    /\ diagnostics = <<>>
    /\ Variants = <<>>
    /\ variants = <<>>
    /\ function_names = <<>>
    /\ first_sig = 0
    /\ parsed_pub = FALSE
    /\ discarded = <<>>
    /\ out = NoOut

Init == InitWith(QualifierLists)

InitShapes == InitWith(MemberLists(ShapeMembers))

Next ==
    \/ TryFromStep
    \/ TryFromReturn
    \/ VariantsFrom
    \/ LibParseArgs
    \/ LibStep
    \/ LibEmit

Spec == Init /\ [][Next]_vars

SpecShapes == InitShapes /\ [][Next]_vars

----------------------------------------------------------------------------
(* Properties                                                              *)

\* Functions::try_from returned Ok(r)
Returned == pc \in {"Ok", "Variants", "generate_panic"}

\* Functions::try_from is over, one way or another
TryFromOver == Returned \/ pc \in {"abort", "panic"}

\* enum_from_functions returned the enum and the impl block
Emitted == pc = "lib_done" /\ out.kind = "tokens"

Range(s) == {s[k] : k \in 1..Len(s)}

FnSet(its) == {k \in 1..Len(its) : IsFn(its[k])}

RECURSIVE FnIndicesFrom(_, _)
FnIndicesFrom(its, k) ==
    IF k > Len(its) THEN <<>>
    ELSE (IF IsFn(its[k]) THEN <<k>> ELSE <<>>) \o FnIndicesFrom(its, k + 1)

\* the positions of the function members of a member list, in member order
FnIndices(its) == FnIndicesFrom(its, 1)

\* the i-th function member
FnAt(its, k) == its[FnIndices(its)[k]].sig

\* PascalCase of the names used, written out
PascalExpected(n) ==
    CASE n = <<"f">> -> <<"F">>
      [] n = <<"g">> -> <<"G">>
      [] n = <<"f", "_", "g">> -> <<"F", "G">>
      [] n = <<"f", "G">> -> <<"F", "G">>

\* C1: whenever the transformation completes, the generated enum has
\* exactly one variant per function member, the i-th named by the PascalCase
\* form of the i-th function member's name, in member order; non-function
\* members contribute none (Variants::from and enum_from_functions alike).
C1_VariantPerFunction ==
    /\ pc = "Variants" =>
          /\ Len(Variants) = Cardinality(FnSet(items))
          /\ \A k \in 1..Len(Variants) :
                Variants[k].ident = PascalExpected(FnAt(items, k).ident)
    /\ Emitted =>
          /\ Len(out.enum.variants) = Cardinality(FnSet(items))
          /\ \A k \in 1..Len(out.enum.variants) :
                out.enum.variants[k] = PascalExpected(FnAt(items, k).ident)

\* enum_from_functions completed on function, non-function, function with
\* snake_case names
C1_Witness ==
    /\ Emitted
    /\ Len(items) = 3 /\ IsFn(items[1]) /\ ~IsFn(items[2]) /\ IsFn(items[3])
    /\ items[1].sig.ident = <<"f", "_", "g">>
    /\ out.enum.variants = << <<"F", "G">>, <<"F">> >>

\* The impl block compiles with the strict revision's output: the function
\* members have one signature up to the name, without receiver, each
\* argument bound by a name of its own, and the variant identifiers are
\* pairwise distinct.
Accepted(its) ==
    \A j \in FnSet(its) : \A k \in FnSet(its) :
        /\ Anonimize(its[j].sig) = Anonimize(its[k].sig)
        /\ \A a \in 1..Len(its[j].sig.inputs) :
              /\ its[j].sig.inputs[a].kind = "Typed"
              /\ its[j].sig.inputs[a].pat = "Ident"
              /\ \A b \in 1..Len(its[j].sig.inputs) :
                    its[j].sig.inputs[a].name = its[j].sig.inputs[b].name => a = b
        /\ (j # k => PascalExpected(its[j].sig.ident) # PascalExpected(its[k].sig.ident))

\* the names of the typed arguments, in order, and whether all are names
TypedNames(sig) == [a \in 1..Len(FieldInputs(sig)) |-> FieldInputs(sig)[a].name]
AllNamed(sig) ==
    \A a \in 1..Len(FieldInputs(sig)) :
        FieldInputs(sig)[a].kind = "Typed" /\ FieldInputs(sig)[a].pat = "Ident"

\* C2: for every function member f of an accepted impl block, `map` applied
\* to the variant derived from f makes the call that calling f directly with
\* the same argument values makes: f and no other function, the arguments in
\* their order. In the extracting revision the k-th call expression names
\* the k-th function and, when all its arguments are bound by name, forwards
\* them all in order, after the receiver if there is one.
C2_RoundTrip ==
    /\ (Emitted /\ Accepted(items)) =>
          \A k \in 1..Len(FnIndices(items)) :
              Dispatch(out.map[1], out.enum.variants[k], ArgValues(FnAt(items, k)))
                  = DirectCall(FnAt(items, k), ArgValues(FnAt(items, k)))
    /\ Returned =>
          /\ Len(r.calls) = Len(FnIndices(items))
          /\ \A k \in 1..Len(r.calls) :
                /\ r.calls[k].func = FnAt(items, k).ident
                /\ r.calls[k].recv = (FieldInputs(FnAt(items, k)) # FnAt(items, k).inputs)
                /\ r.calls[k].await = FnAt(items, k).asyncness
                /\ AllNamed(FnAt(items, k)) => r.calls[k].args = TypedNames(FnAt(items, k))

\* map was emitted for two functions of two arguments each
C2_Witness ==
    /\ Emitted /\ Accepted(items)
    /\ Len(FnIndices(items)) = 2
    /\ Len(FnAt(items, 2).inputs) = 2
    /\ Dispatch(out.map[1], out.enum.variants[2], <<11, 12>>)
          = [func |-> FnAt(items, 2).ident, argv |-> <<11, 12>>]

\* some function member is declared async and another one const
MixesAsyncConst(its) ==
    \E j \in FnSet(its) : \E k \in FnSet(its) :
        j # k /\ its[j].sig.asyncness /\ its[k].sig.constness

\* C3: no Function Set is returned for a member list with a function
\* declared async and a function declared const.
C3_MutualExclusion == Returned => ~MixesAsyncConst(items)

\* C4: the aggregated async and const qualifiers are never both set.
C4_NeverBoth == ~(r.asyncness # 0 /\ r.constness # 0)

\* some function member has an argument bound by neither a name nor `_`
HasUnsupportedPattern(its) ==
    \E k \in FnSet(its) : WithoutTypesUnreachable(its[k].sig.inputs)

\* the later function members whose declared return type is not the first's
Mismatching(its) ==
    {k \in FnSet(its) : its[k].sig.output # FnAt(its, 1).output}

\* what a returned Function Set and the diagnostics are to be: the first
\* function's return type, every function member, and per mismatching member
\* one diagnostic at the first-seen type showing the offending type and one
\* at the offending type showing the first-seen type, none fatal, and no other
FirstSeenWins ==
    /\ r.signatures = FnIndices(items)
    /\ r.return_type = IF FnSet(items) = {} THEN "Default" ELSE FnAt(items, 1).output
    /\ Len(diagnostics) = 2 * Cardinality(Mismatching(items))
    /\ \A d \in Range(diagnostics) : ~d.fatal /\ d.msg = "return type does not match"
    /\ \A k \in Mismatching(items) :
          /\ \E d \in Range(diagnostics) :
                d.at = <<"output", FnIndices(items)[1]>> /\ d.shown = items[k].sig.output
          /\ \E d \in Range(diagnostics) :
                d.at = <<"output", k>> /\ d.shown = FnAt(items, 1).output

HasReceiver(its) ==
    \E k \in FnSet(its) : \E a \in 1..Len(its[k].sig.inputs) :
        its[k].sig.inputs[a].kind = "Receiver"

\* C6: when any function member declares a `self` receiver the strict
\* revision fails and emits no enum and no dispatch operation.
C6_ReceiverForbidden ==
    (pc \in {"lib_done", "lib_panic"} /\ HasReceiver(items)) => out.kind # "tokens"

\* C7: for every later function member whose name-blanked signature differs
\* from the first's, the macro's output holds a mismatched-signatures
\* diagnostic.
C7_SignatureEquality ==
    Emitted =>
        \A k \in FnSet(items) :
            Anonimize(items[k].sig) # Anonimize(FnAt(items, 1))
                => \E e \in Range(out.errors) :
                       e.msg = "mismatched signatures" /\ e.func = k

RECURSIVE NamedFieldsFrom(_, _)
\* the non-receiver arguments bound by a simple name, as fields, in order
NamedFieldsFrom(inputs, k) ==
    IF k > Len(inputs) THEN <<>>
    ELSE (IF inputs[k].kind = "Typed" /\ inputs[k].pat = "Ident"
          THEN <<[name |-> inputs[k].name, ty |-> inputs[k].ty]>> ELSE <<>>)
         \o NamedFieldsFrom(inputs, k + 1)

\* C8: convert_single produces, for every function signature, a variant
\* whose fields are exactly the non-receiver arguments bound by a simple
\* name, in order, with their names and types (a receiver and a `_`
\* argument contribute none), the names being those the call forwards.
C8_FieldCorrespondence ==
    /\ pc # "generate_panic"
    /\ pc = "Variants" =>
          \A k \in 1..Len(Variants) :
              /\ Variants[k].fields.named = NamedFieldsFrom(FnAt(items, k).inputs, 1)
              /\ [a \in 1..Len(Variants[k].fields.named) |->
                     Variants[k].fields.named[a].name] = r.calls[k].args

\* C9: the generated `map` carries the visibility of the generated enum.
C9_MapVisibility ==
    (Emitted /\ out.map # <<>>) => out.map[1].vis = out.enum.vis

\* C10: each aggregated qualifier is set exactly when a function member
\* visited so far carries it: it is set from the first such member on, never
\* cleared by a later member, untouched by non-function members, and on
\* completion set if and only if some function member carries it.
C10_QualifierAggregation ==
    pc \in {"try_from", "Ok", "Variants", "generate_panic"} =>
        /\ (r.asyncness # 0) = (\E k \in FnSet(items) : k < i /\ items[k].sig.asyncness)
        /\ (r.constness # 0) = (\E k \in FnSet(items) : k < i /\ items[k].sig.constness)
        /\ (r.unsafety # 0) = (\E k \in FnSet(items) : k < i /\ items[k].sig.unsafety)
        /\ Returned => i = Len(items) + 1

\* completed on: unsafe function, non-function member, plain function
C10_Witness ==
    /\ Returned
    /\ Len(items) = 3
    /\ IsFn(items[1]) /\ items[1].sig.unsafety /\ ~items[1].sig.asyncness
    /\ ~IsFn(items[2])
    /\ IsFn(items[3]) /\ ~items[3].sig.unsafety
    /\ r.unsafety # 0 /\ r.asyncness = 0 /\ r.constness = 0

====
